---- MODULE Spec2Model ----
(***************************************************************************)
(* tailless log viewer: src/src/tailless/log_view.py                       *)
(*                                                                         *)
(* The view (LogLines, LogView, SearchSuggester) is modelled from the      *)
(* source.  MappedFile (.mapped_file) and Watcher (.watcher) are imported  *)
(* by the source but their code is not part of src/; the FileIndex and     *)
(* ChangeWatcher they implement are modelled from spec.md sections 3, 4.1  *)
(* and 4.2.                                                                *)
(*                                                                         *)
(* Text is a sequence of one-character strings.  A Python Optional is the  *)
(* empty sequence (None) or a one-element sequence.                        *)
(***************************************************************************)
EXTENDS Integers, Sequences, FiniteSets, TLC

VARIABLES
    file,           \* bytes of the watched file on disk (environment)
    file_changed,   \* the file's identity signal differs from the one the watcher saw last
    stale_appends,  \* appends made since the identity signal changed
    opened,         \* MappedFile.open() has run
    size,           \* MappedFile.size
    offsets,        \* MappedFile line-offset table
    scanned,        \* the bytes handed to scan_block since the last reset, in order
    calls,          \* the <<start, end>> of every scan_block call since the last reset
    watching,       \* watch() has registered the subscription and made its immediate callback
    find,           \* LogLines.find
    regex,          \* LogLines.regex
    case_sensitive, \* LogLines.case_sensitive
    show_find,      \* LogLines.show_find (set from LogView.show_find)
    show_gutter,    \* LogLines.show_gutter
    pointer_line,   \* LogLines.pointer_line: None or Some(line number)
    scroll_y,       \* LogLines.scroll_offset.y
    virtual_height, \* LogLines.virtual_size.height, as set by the last on_idle
    is_scrolling,   \* LogLines.is_scrolling
    scroll_target,  \* y of the scroll_to in progress: None or Some(y)
    examined,       \* line numbers the last advance_search passed to get_line, in order
    raised,         \* the exception that escaped a handler: "none", "re.error" or "IndexError"
    render_cache,   \* LogLines._render_line_cache: cache key -> strip
    search_index,   \* LogLines._search_index: <<key, word>> entries, most recently used first
    evicted,        \* entries the last operation evicted from _search_index
    suggest_input,  \* the value last given to get_suggestion
    suggestion,     \* what get_suggestion returned: None or Some(text)
    show_panel,     \* LogView.show_panel
    pointer_moved_msg, \* the pending LogLines.PointerMoved: None or Some(its pointer_line)
    last_op         \* the last operation that acted

index_vars == <<file, file_changed, stale_appends, opened, size, offsets, scanned, calls,
                watching>>

filter_vars == <<find, regex, case_sensitive, show_find>>

pointer_vars == <<show_gutter, pointer_line, examined, raised>>

scroll_vars == <<scroll_y, virtual_height, is_scrolling, scroll_target>>

suggest_vars == <<search_index, evicted, suggest_input, suggestion>>

panel_vars == <<show_panel, pointer_moved_msg>>

view_vars == <<filter_vars, pointer_vars, scroll_vars, render_cache, suggest_vars, panel_vars>>

vars == <<index_vars, view_vars, last_op>>

----------------------------------------------------------------------------
(* Bounds *)

MaxSize == 5
MaxStaleAppends == 0

LF == "\n"
CR == "\r"

IndexBytes == {LF, CR, "a"}

None == <<>>
Some(x) == <<x>>

----------------------------------------------------------------------------
(* FileIndex (MappedFile), spec.md 4.1 *)

\* Byte at 0-based offset p of data.
ByteAt(data, p) == data[p + 1]

\* scan_block(start, end): every "\n" at offset t in [start, end) appends t + 1.
RECURSIVE scan_block(_, _, _, _)
scan_block(offs, data, start, end) ==
    IF start >= end
    THEN offs
    ELSE scan_block(IF ByteAt(data, start) = LF THEN Append(offs, start + 1) ELSE offs,
                    data, start + 1, end)

\* line_count = len(offsets)
line_count == Len(offsets)

\* Mutant: the initial scan stops one byte short of size.
on_mount_short_scan ==
    /\ ~opened
    /\ opened' = TRUE
    /\ size' = Len(file)
    /\ offsets' = scan_block(<<>>, file, 0, Len(file) - 1)
    /\ scanned' = file
    /\ calls' = <<<<0, Len(file)>>>>
    /\ file_changed' = FALSE
    /\ stale_appends' = 0
    /\ last_op' = "on_mount"
    /\ UNCHANGED <<file, view_vars, watching>>

\* Mutant: the initial scan starts at byte 1 instead of byte 0.
on_mount_skips_first ==
    /\ ~opened
    /\ opened' = TRUE
    /\ size' = Len(file)
    /\ offsets' = scan_block(<<>>, file, 1, Len(file))
    /\ scanned' = file
    /\ calls' = <<<<0, Len(file)>>>>
    /\ file_changed' = FALSE
    /\ stale_appends' = 0
    /\ last_op' = "on_mount"
    /\ UNCHANGED <<file, view_vars, watching>>

\* Mutant: the table is seeded with offset 0 before the initial scan.
on_mount_seeds_zero ==
    /\ ~opened
    /\ opened' = TRUE
    /\ size' = Len(file)
    /\ offsets' = scan_block(<<0>>, file, 0, Len(file))
    /\ scanned' = file
    /\ calls' = <<<<0, Len(file)>>>>
    /\ file_changed' = FALSE
    /\ stale_appends' = 0
    /\ last_op' = "on_mount"
    /\ UNCHANGED <<file, view_vars, watching>>

\* Mutant: the range [0, size) is scanned a second time at mount.
on_mount_scans_twice ==
    /\ ~opened
    /\ opened' = TRUE
    /\ size' = Len(file)
    /\ offsets' = scan_block(scan_block(<<>>, file, 0, Len(file)), file, 0, Len(file))
    /\ scanned' = file \o file
    /\ calls' = <<<<0, Len(file)>>, <<0, Len(file)>>>>
    /\ file_changed' = FALSE
    /\ stale_appends' = 0
    /\ last_op' = "on_mount"
    /\ UNCHANGED <<file, view_vars, watching>>

\* LogLines.on_mount: open() then scan_block(0, size)
on_mount ==
    /\ ~opened
    /\ opened' = TRUE
    /\ size' = Len(file)
    /\ offsets' = scan_block(<<>>, file, 0, Len(file))
    /\ scanned' = file
    /\ calls' = <<<<0, Len(file)>>>>
    /\ file_changed' = FALSE
    /\ stale_appends' = 0
    /\ last_op' = "on_mount"
    /\ UNCHANGED <<file, view_vars, watching>>

----------------------------------------------------------------------------
(* Environment: writers of the log file *)

AppendBytes(b) ==
    /\ Len(file) < MaxSize
    /\ file_changed => stale_appends < MaxStaleAppends
    /\ file' = Append(file, b)
    /\ stale_appends' = IF file_changed THEN stale_appends + 1 ELSE stale_appends
    /\ last_op' = "append"
    /\ UNCHANGED <<file_changed, opened, size, offsets, scanned, calls, view_vars, watching>>

\* Truncation in place to n bytes, or rotation to a new empty file (n = 0).
Truncate(n) ==
    /\ n < Len(file)
    /\ file' = SubSeq(file, 1, n)
    /\ file_changed' = TRUE
    /\ stale_appends' = IF file_changed THEN stale_appends ELSE 0
    /\ last_op' = "truncate"
    /\ UNCHANGED <<opened, size, offsets, scanned, calls, view_vars, watching>>

----------------------------------------------------------------------------
(* ChangeWatcher, spec.md 4.2 *)

\* Mutant: a growth notification scans into a fresh table.
WatcherGrowth_fresh_table ==
    /\ opened
    /\ ~file_changed
    /\ Len(file) > size
    /\ offsets' = scan_block(<<>>, file, size, Len(file))
    /\ scanned' = scanned \o SubSeq(file, size + 1, Len(file))
    /\ calls' = Append(calls, <<size, Len(file)>>)
    /\ size' = Len(file)
    /\ last_op' = "growth"
    /\ UNCHANGED <<file, file_changed, stale_appends, opened, view_vars, watching>>

\* Mutant: a growth notification is delivered as callback(0, new).
WatcherGrowth_from_zero ==
    /\ opened
    /\ ~file_changed
    /\ Len(file) > size
    /\ offsets' = scan_block(offsets, file, 0, Len(file))
    /\ scanned' = scanned \o file
    /\ calls' = Append(calls, <<0, Len(file)>>)
    /\ size' = Len(file)
    /\ last_op' = "growth"
    /\ UNCHANGED <<file, file_changed, stale_appends, opened, view_vars, watching>>

\* Growth: callback(old, new) extends the index over [old, new).
WatcherGrowth ==
    /\ opened
    /\ ~file_changed
    /\ Len(file) > size
    /\ offsets' = scan_block(offsets, file, size, Len(file))
    /\ scanned' = scanned \o SubSeq(file, size + 1, Len(file))
    /\ calls' = Append(calls, <<size, Len(file)>>)
    /\ size' = Len(file)
    /\ last_op' = "growth"
    /\ UNCHANGED <<file, file_changed, stale_appends, opened, view_vars, watching>>

\* Mutant: the reset rescans from zero without discarding the old table.
WatcherReset_keeps_offsets ==
    /\ opened
    /\ file_changed \/ Len(file) < size
    /\ offsets' = scan_block(offsets, file, 0, Len(file))
    /\ scanned' = file
    /\ calls' = <<<<0, Len(file)>>>>
    /\ size' = Len(file)
    /\ file_changed' = FALSE
    /\ stale_appends' = 0
    /\ last_op' = "reset"
    /\ UNCHANGED <<file, opened, view_vars, watching>>

\* Truncation/replacement: reset signal, discard the index and rescan from zero.
WatcherReset ==
    /\ opened
    /\ file_changed \/ Len(file) < size
    /\ offsets' = scan_block(<<>>, file, 0, Len(file))
    /\ scanned' = file
    /\ calls' = <<<<0, Len(file)>>>>
    /\ size' = Len(file)
    /\ file_changed' = FALSE
    /\ stale_appends' = 0
    /\ last_op' = "reset"
    /\ UNCHANGED <<file, opened, view_vars, watching>>

\* watch(path, callback): registers the subscription and immediately invokes
\* the callback with the file's current size.  The subscriber extends its
\* index from the end of its last scan to that size; a file truncated or
\* replaced since open() is the reset signal.
watch ==
    /\ opened
    /\ ~watching
    /\ watching' = TRUE
    /\ IF file_changed \/ Len(file) < size
       THEN /\ offsets' = scan_block(<<>>, file, 0, Len(file))
            /\ scanned' = file
            /\ calls' = <<<<0, Len(file)>>>>
       ELSE /\ offsets' = scan_block(offsets, file, size, Len(file))
            /\ scanned' = scanned \o SubSeq(file, size + 1, Len(file))
            /\ calls' = Append(calls, <<size, Len(file)>>)
    /\ size' = Len(file)
    /\ file_changed' = FALSE
    /\ stale_appends' = 0
    /\ last_op' = "watch"
    /\ UNCHANGED <<file, opened, view_vars>>


----------------------------------------------------------------------------
(* Text *)

\* str.lower(), for the upper-case letters the model's texts use.
LowerChar(c) ==
    CASE c = "A" -> "a"
      [] c = "B" -> "b"
      [] c = "E" -> "e"
      [] c = "O" -> "o"
      [] c = "R" -> "r"
      [] OTHER -> c

Lower(s) == [i \in 1..Len(s) |-> LowerChar(s[i])]

\* Python's  needle in hay  for strings.
Contains(hay, needle) ==
    \E i \in 0..(Len(hay) - Len(needle)) : SubSeq(hay, i + 1, i + Len(needle)) = needle

\* re.compile(pattern) succeeds.  The patterns of the model are made of
\* literal characters, "." and parentheses; an unbalanced parenthesis is the
\* invalid pattern.
RECURSIVE ParenDepth(_, _, _)
ParenDepth(pattern, i, depth) ==
    IF depth < 0 THEN depth
    ELSE IF i > Len(pattern) THEN depth
    ELSE ParenDepth(pattern, i + 1,
                    IF pattern[i] = "(" THEN depth + 1
                    ELSE IF pattern[i] = ")" THEN depth - 1
                    ELSE depth)

re_valid(pattern) == ParenDepth(pattern, 1, 0) = 0

\* One pattern character against one character of the line.
CharMatches(p, c, ignorecase) ==
    IF p = "."
    THEN c # LF
    ELSE IF ignorecase THEN LowerChar(p) = LowerChar(c) ELSE p = c

\* re.match(pattern, line, flags) is not None, for a valid pattern without
\* groups: the pattern matches at the start of the line.
re_match(pattern, line, ignorecase) ==
    /\ Len(pattern) <= Len(line)
    /\ \A i \in 1..Len(pattern) : CharMatches(pattern[i], line[i], ignorecase)

----------------------------------------------------------------------------
(* MappedFile.get_line, spec.md 4.1 *)

InRange(i) == 0 <= i /\ i < line_count

LineStart(i) == IF i = 0 THEN 0 ELSE offsets[i]

\* Offset of the terminator of line i.
LineTerminator(i) == offsets[i + 1] - 1

\* Text of line i without its terminator and without the "\r" before it.
get_line(i) ==
    LET raw == SubSeq(file, LineStart(i) + 1, LineTerminator(i))
    IN  IF raw # <<>> /\ raw[Len(raw)] = CR
        THEN SubSeq(raw, 1, Len(raw) - 1)
        ELSE raw

----------------------------------------------------------------------------
(* LogLines: search *)

ViewHeight == 2
MaxScrolling == 1
GutterTop == 1

Max(a, b) == IF a >= b THEN a ELSE b
Min(a, b) == IF a <= b THEN a ELSE b

\* ScrollView.max_scroll_y
max_scroll_y == Max(0, virtual_height - ViewHeight)

\* LogLines.clear_caches
clear_caches == <<>>

\* LogLines.watch_pointer_line, run when a handler changed pointer_line: it
\* posts PointerMoved, which replaces a PointerMoved still pending (can_replace).
watch_pointer_line ==
    pointer_moved_msg' = IF pointer_line' # pointer_line
                         THEN Some(pointer_line') ELSE pointer_moved_msg

\* check_match raises: re.match compiles self.find, and is reached for every
\* non-empty line when regex is set.
check_match_raises(line) == line # <<>> /\ regex /\ ~re_valid(find)

\* Mutant: the regex branch uses re.fullmatch.
check_match_fullmatch(line) ==
    IF line = <<>> THEN TRUE
    ELSE IF regex THEN Len(find) = Len(line) /\ re_match(find, line, ~case_sensitive)
    ELSE IF case_sensitive THEN Contains(line, find)
    ELSE Contains(Lower(line), Lower(find))

\* LogLines.check_match, where it returns.
check_match(line) ==
    IF line = <<>> THEN TRUE
    ELSE IF regex THEN re_match(find, line, ~case_sensitive)
    ELSE IF case_sensitive THEN Contains(line, find)
    ELSE Contains(Lower(line), Lower(find))

\* The for loop of advance_search from line_no on: the line numbers given to
\* get_line, the line selected, and the exception that ended the loop.
RECURSIVE search_loop(_, _, _)
search_loop(line_no, direction, seen) ==
    IF (direction = 1 /\ line_no >= line_count) \/ (direction = -1 /\ line_no < 0)
    THEN [examined |-> seen, found |-> None, raised |-> "none"]
    ELSE IF ~InRange(line_no)
    THEN [examined |-> Append(seen, line_no), found |-> None, raised |-> "IndexError"]
    ELSE IF check_match_raises(get_line(line_no))
    THEN [examined |-> Append(seen, line_no), found |-> None, raised |-> "re.error"]
    ELSE IF check_match(get_line(line_no))
    THEN [examined |-> Append(seen, line_no), found |-> Some(line_no), raised |-> "none"]
    ELSE search_loop(line_no + direction, direction, Append(seen, line_no))

\* Mutant: the search starts on the pointer's own line.
start_line_at_pointer(direction) ==
    IF pointer_line = None
    THEN (IF direction = 1 THEN scroll_y ELSE max_scroll_y)
    ELSE pointer_line[1]

\* start_line of advance_search
start_line(direction) ==
    IF pointer_line = None
    THEN (IF direction = 1 THEN scroll_y ELSE max_scroll_y)
    ELSE pointer_line[1] + direction

\* LogLines.advance_search
advance_search(direction) ==
    LET r == search_loop(start_line(direction), direction, <<>>)
        p == IF r.found # None THEN r.found ELSE pointer_line
        out_of_view == p # None /\ (p[1] < scroll_y \/ p[1] > scroll_y + ViewHeight - 1)
        y_offset == p[1] - (ViewHeight \div 2)
        animate == (IF y_offset >= scroll_y THEN y_offset - scroll_y ELSE scroll_y - y_offset) > 1
        clamped == Max(0, Min(y_offset, max_scroll_y))
    IN  /\ examined' = r.examined
        /\ raised' = r.raised
        /\ pointer_line' = p
        /\ IF r.raised = "none" /\ out_of_view
           THEN /\ is_scrolling' = is_scrolling + 1
                /\ scroll_target' = IF animate THEN Some(clamped) ELSE None
                /\ scroll_y' = IF animate THEN scroll_y ELSE clamped
           ELSE UNCHANGED <<is_scrolling, scroll_target, scroll_y>>

\* LogView.move_pointer (FilterDialog.MovePointer)
move_pointer(direction) ==
    /\ opened
    /\ raised = "none"
    /\ show_find
    /\ is_scrolling < MaxScrolling
    /\ show_gutter' = TRUE
    /\ advance_search(direction)
    /\ last_op' = (IF direction = 1 THEN "advance_search(1)" ELSE "advance_search(-1)")
    /\ watch_pointer_line
    /\ UNCHANGED <<index_vars, filter_vars, virtual_height, render_cache, suggest_vars, show_panel>>

\* on_complete of scroll_to, the animated scroll having reached its target
scroll_complete ==
    /\ raised = "none"
    /\ is_scrolling > 0
    /\ is_scrolling' = is_scrolling - 1
    /\ scroll_y' = IF scroll_target # None THEN scroll_target[1] ELSE scroll_y
    /\ scroll_target' = None
    /\ last_op' = "scroll_complete"
    /\ UNCHANGED <<index_vars, filter_vars, pointer_vars, virtual_height, render_cache, suggest_vars, panel_vars>>

\* The user scrolls the view (ScrollView).
user_scroll(y) ==
    /\ opened
    /\ raised = "none"
    /\ is_scrolling = 0
    /\ y <= max_scroll_y
    /\ y # scroll_y
    /\ scroll_y' = y
    /\ last_op' = "user_scroll"
    /\ UNCHANGED <<index_vars, filter_vars, pointer_vars, virtual_height, is_scrolling,
                   scroll_target, render_cache, suggest_vars, panel_vars>>

\* LogLines.on_idle
on_idle ==
    /\ opened
    /\ raised = "none"
    /\ virtual_height' = line_count
    /\ pointer_line' =
          IF pointer_line # None /\ is_scrolling = 0
          THEN IF pointer_line[1] < scroll_y THEN Some(scroll_y)
               ELSE IF pointer_line[1] >= scroll_y + ViewHeight
                    THEN Some(scroll_y + ViewHeight - 1)
                    ELSE pointer_line
          ELSE pointer_line
    /\ last_op' = "on_idle"
    /\ watch_pointer_line
    /\ UNCHANGED <<index_vars, filter_vars, show_gutter, examined, raised, scroll_y,
                   is_scrolling, scroll_target, render_cache, suggest_vars, show_panel>>

\* LogLines.on_click
on_click(y) ==
    /\ opened
    /\ raised = "none"
    /\ IF show_find
       THEN /\ show_gutter' = TRUE
            /\ pointer_line' = Some(y + scroll_y - GutterTop)
       ELSE UNCHANGED <<show_gutter, pointer_line>>
    /\ last_op' = "on_click"
    /\ watch_pointer_line
    /\ UNCHANGED <<index_vars, filter_vars, examined, raised, scroll_vars, render_cache,
                   suggest_vars, show_panel>>

\* LogView.filter_dialog_update with the watchers of find, regex and
\* case_sensitive, which run when the value changes.
filter_dialog_update(f, r, c) ==
    /\ opened
    /\ raised = "none"
    /\ show_find
    /\ find' = f
    /\ regex' = r
    /\ case_sensitive' = c
    /\ IF f # find /\ f = <<>>
       THEN pointer_line' = None /\ show_gutter' = FALSE
       ELSE UNCHANGED <<pointer_line, show_gutter>>
    /\ render_cache' = IF f # find \/ r # regex \/ c # case_sensitive
                       THEN clear_caches ELSE render_cache
    /\ last_op' = "filter_dialog_update"
    /\ watch_pointer_line
    /\ UNCHANGED <<index_vars, show_find, examined, raised, scroll_vars, suggest_vars, show_panel>>

\* LogView.show_find set to True (the find binding), through
\* LogView.watch_show_find and LogLines.watch_show_find.
show_filter_dialog ==
    /\ opened
    /\ raised = "none"
    /\ ~show_find
    /\ show_find' = TRUE
    /\ render_cache' = clear_caches
    /\ last_op' = "show_find"
    /\ UNCHANGED <<index_vars, find, regex, case_sensitive, pointer_vars, scroll_vars,
                   suggest_vars, panel_vars>>

\* LogView.dismiss_filter_dialog, with the watchers of show_find.
dismiss_filter_dialog ==
    /\ opened
    /\ raised = "none"
    /\ show_find
    /\ show_find' = FALSE
    /\ render_cache' = clear_caches
    /\ pointer_line' = None
    /\ show_gutter' = FALSE
    /\ last_op' = "dismiss_filter_dialog"
    /\ watch_pointer_line
    /\ UNCHANGED <<index_vars, find, regex, case_sensitive, examined, raised, scroll_vars,
                   suggest_vars, show_panel>>

\* LogView.select_line (FilterDialog.SelectLine)
select_line ==
    /\ opened
    /\ raised = "none"
    /\ show_find
    /\ show_panel' = ~show_panel
    /\ last_op' = "select_line"
    /\ UNCHANGED <<index_vars, filter_vars, pointer_vars, scroll_vars, render_cache,
                   suggest_vars, pointer_moved_msg>>

\* LogView.pointer_moved, handling the pending PointerMoved
pointer_moved ==
    /\ opened
    /\ raised = "none"
    /\ pointer_moved_msg # None
    /\ show_panel' = IF pointer_moved_msg[1] = None THEN FALSE ELSE show_panel
    /\ pointer_moved_msg' = None
    /\ last_op' = "pointer_moved"
    /\ UNCHANGED <<index_vars, filter_vars, pointer_vars, scroll_vars, render_cache,
                   suggest_vars>>

----------------------------------------------------------------------------
(* LRUCache (textual.cache), as LogLines uses it: entries <<key, value>>,
   most recently used first.  The class is a library's; it is taken to be
   the mapping its interface describes: an assignment to a present key
   replaces the stored value. *)

SearchIndexMaxSize == 4

lru_has(cache, key) == \E i \in 1..Len(cache) : cache[i][1] = key

lru_pos(cache, key) == CHOOSE i \in 1..Len(cache) : cache[i][1] = key

lru_without(cache, i) == SubSeq(cache, 1, i - 1) \o SubSeq(cache, i + 1, Len(cache))

\* The value a lookup of a present key returns.
lru_value(cache, key) == cache[lru_pos(cache, key)][2]

\* The cache after a lookup through __getitem__ or get: a hit becomes the most
\* recently used entry.
lru_touch(cache, key) ==
    IF lru_has(cache, key)
    THEN <<cache[lru_pos(cache, key)]>> \o lru_without(cache, lru_pos(cache, key))
    ELSE cache

\* Mutant: a mapping without a maximum size.
lru_set_unbounded(cache, key, value) ==
    IF lru_has(cache, key)
    THEN <<<<key, value>>>> \o lru_without(cache, lru_pos(cache, key))
    ELSE <<<<key, value>>>> \o cache

\* The cache after cache[key] = value: the entry becomes the most recently
\* used one, and a new key in a full cache evicts the least recently used.
lru_set(cache, key, value) ==
    IF lru_has(cache, key)
    THEN <<<<key, value>>>> \o lru_without(cache, lru_pos(cache, key))
    ELSE IF Len(cache) >= SearchIndexMaxSize
         THEN <<<<key, value>>>> \o SubSeq(cache, 1, SearchIndexMaxSize - 1)
         ELSE <<<<key, value>>>> \o cache

\* 1 when cache[key] = value evicts an entry.
lru_set_evicts(cache, key) ==
    IF ~lru_has(cache, key) /\ Len(cache) >= SearchIndexMaxSize THEN 1 ELSE 0

----------------------------------------------------------------------------
(* SPLIT_REGEX and the suggestion index *)

\* The characters SPLIT_REGEX matches: whitespace, "/", "[" and "]".
SplitChars == {" ", "\t", LF, CR, "/", "[", "]"}

\* re.split(SPLIT_REGEX, text) from character i on, cur being the token in
\* progress and done the tokens completed.
RECURSIVE split_from(_, _, _, _)
split_from(text, i, cur, done) ==
    IF i > Len(text)
    THEN Append(done, cur)
    ELSE IF text[i] \in SplitChars
         THEN split_from(text, i + 1, <<>>, Append(done, cur))
         ELSE split_from(text, i + 1, Append(cur, text[i]), done)

re_split(text) == split_from(text, 1, <<>>, <<>>)

\* Lines 148-153 of render_line: one prefix of one word.  st is the index
\* with the count of evictions so far.
store_prefix(st, word, offset) ==
    LET sub_word == SubSeq(word, 1, offset)
        key      == Lower(sub_word)
        touched  == lru_touch(st.index, sub_word)
    IN  IF lru_has(st.index, sub_word)
        THEN IF Len(lru_value(st.index, sub_word)) < Len(word)
             THEN [index   |-> lru_set(touched, key, word),
                   evicted |-> st.evicted + lru_set_evicts(touched, key)]
             ELSE [index |-> touched, evicted |-> st.evicted]
        ELSE [index   |-> lru_set(st.index, key, word),
              evicted |-> st.evicted + lru_set_evicts(st.index, key)]

\* Mutant: range(1, len(word) + 1), the whole word being its last prefix.
last_prefix_whole_word(word) == Len(word)

\* The last offset of  range(1, len(word) - 1).
last_prefix(word) == Len(word) - 2

\* Line 147: for offset in range(1, len(word) - 1), from offset on.
RECURSIVE store_prefixes(_, _, _)
store_prefixes(st, word, offset) ==
    IF offset > last_prefix(word)
    THEN st
    ELSE store_prefixes(store_prefix(st, word, offset), word, offset + 1)

\* Lines 144-153: for word in re.split(SPLIT_REGEX, text.plain), from word i on.
RECURSIVE store_words(_, _, _)
store_words(st, words, i) ==
    IF i > Len(words)
    THEN st
    ELSE store_words(IF Len(words[i]) <= 1 THEN st ELSE store_prefixes(st, words[i], 1),
                     words, i + 1)

\* The index after the text of a rendered line has been observed.
observe(index, text) == store_words([index |-> index, evicted |-> 0], re_split(text), 1)

----------------------------------------------------------------------------
(* LogLines.render_line *)

\* re.finditer(pattern, text, flags) finds a match: the pattern matches at
\* some position of the text.
re_search(pattern, text, ignorecase) ==
    \E i \in 0..Len(text) : re_match(pattern, SubSeq(text, i + 1, Len(text)), ignorecase)

\* LogLines.highlight_find: the style the text is left with.
highlight_find(text) ==
    IF regex
    THEN IF ~re_valid(find) THEN "plain"
         ELSE IF re_search(find, text, ~case_sensitive) THEN "highlight" ELSE "dim"
    ELSE IF (IF case_sensitive THEN Contains(text, find)
             ELSE Contains(Lower(text), Lower(find)))
         THEN "highlight" ELSE "dim"

\* MappedFile.get_text: the text of the line; the texts of the model carry no
\* timestamp.
get_text(i) == get_line(i)

render_line(y) ==
    LET index      == y + scroll_y
        is_pointer == pointer_line # None /\ index = pointer_line[1]
        cache_key  == <<index, is_pointer>>
        text       == get_text(index)
        observed   == observe(search_index, text)
        strip      == [plain |-> text,
                       style |-> IF find # <<>> /\ show_find
                                 THEN highlight_find(text) ELSE "plain"]
    IN  /\ opened
        /\ raised = "none"
        /\ IF index >= line_count \/ cache_key \in DOMAIN render_cache
           THEN UNCHANGED <<render_cache, search_index>> /\ evicted' = 0
           ELSE /\ search_index' = observed.index
                /\ evicted' = observed.evicted
                /\ render_cache' = (cache_key :> strip) @@ render_cache
        /\ last_op' = "render_line"
        /\ UNCHANGED <<index_vars, filter_vars, pointer_vars, scroll_vars, suggest_input,
                       suggestion, panel_vars>>

\* LogLines.notify_style_update
notify_style_update ==
    /\ opened
    /\ raised = "none"
    /\ render_cache # <<>>
    /\ render_cache' = clear_caches
    /\ last_op' = "notify_style_update"
    /\ UNCHANGED <<index_vars, filter_vars, pointer_vars, scroll_vars, suggest_vars, panel_vars>>

----------------------------------------------------------------------------
(* SearchSuggester *)

\* value[: -n]
SliceBeforeLast(value, n) == IF n = 0 THEN <<>> ELSE SubSeq(value, 1, Len(value) - n)

\* Mutant: the trailing token is looked up as typed.
get_suggestion_case_sensitive(value) ==
    LET words == re_split(value)
        word  == words[Len(words)]
        start == SliceBeforeLast(value, Len(word))
    IN  /\ opened
        /\ raised = "none"
        /\ suggest_input' = value
        /\ suggestion' = IF word = <<>> \/ ~lru_has(search_index, word)
                         THEN None
                         ELSE Some(start \o lru_value(search_index, word))
        /\ search_index' = IF word = <<>> THEN search_index
                           ELSE lru_touch(search_index, word)
        /\ evicted' = 0
        /\ last_op' = "get_suggestion"
        /\ UNCHANGED <<index_vars, filter_vars, pointer_vars, scroll_vars, render_cache, panel_vars>>

\* SearchSuggester.get_suggestion
get_suggestion(value) ==
    LET words == re_split(value)
        word  == words[Len(words)]
        start == SliceBeforeLast(value, Len(word))
        key   == Lower(word)
    IN  /\ opened
        /\ raised = "none"
        /\ suggest_input' = value
        /\ suggestion' = IF word = <<>> \/ ~lru_has(search_index, key)
                         THEN None
                         ELSE Some(start \o lru_value(search_index, key))
        /\ search_index' = IF word = <<>> THEN search_index
                           ELSE lru_touch(search_index, key)
        /\ evicted' = 0
        /\ last_op' = "get_suggestion"
        /\ UNCHANGED <<index_vars, filter_vars, pointer_vars, scroll_vars, render_cache, panel_vars>>

----------------------------------------------------------------------------

RECURSIVE SeqsUpTo(_, _)
SeqsUpTo(S, n) ==
    IF n = 0
    THEN {<<>>}
    ELSE LET shorter == SeqsUpTo(S, n - 1)
         IN  shorter \cup {Append(s, b) : s \in shorter, b \in S}

\* LogLines.__init__ and the reactive defaults, for a file of the given contents.
InitWith(files) ==
    /\ file \in files
    /\ file_changed = FALSE
    /\ stale_appends = 0
    /\ opened = FALSE
    /\ size = 0
    /\ offsets = <<>>
    /\ scanned = <<>>
    /\ calls = <<>>
    /\ watching = FALSE
    /\ find = <<>>
    /\ regex = FALSE
    /\ case_sensitive = FALSE
    /\ show_find = FALSE
    /\ show_gutter = FALSE
    /\ pointer_line = None
    /\ scroll_y = 0
    /\ virtual_height = 0
    /\ is_scrolling = 0
    /\ scroll_target = None
    /\ examined = <<>>
    /\ raised = "none"
    /\ render_cache = <<>>
    /\ search_index = <<>>
    /\ evicted = 0
    /\ suggest_input = <<>>
    /\ suggestion = None
    /\ show_panel = FALSE
    /\ pointer_moved_msg = None
    /\ last_op = "init"

InitIndex == InitWith(SeqsUpTo(IndexBytes, 2))

NextIndex ==
    \/ on_mount
    \/ \E b \in IndexBytes : AppendBytes(b)
    \/ \E n \in 0..MaxSize : Truncate(n)
    \/ WatcherGrowth
    \/ WatcherReset

SpecIndex == InitIndex /\ [][NextIndex]_vars

\* The index with the subscription made explicit: notifications are delivered
\* once watch() has registered it.  The file is appended to, and rotated to a
\* new empty file.
NextWatch ==
    \/ on_mount
    \/ watch
    \/ \E b \in IndexBytes : AppendBytes(b)
    \/ Truncate(0)
    \/ watching /\ WatcherGrowth
    \/ watching /\ WatcherReset

SpecWatch == InitIndex /\ [][NextWatch]_vars

----------------------------------------------------------------------------
(* The search specification: a mounted view over a static file *)

\* "info", "ERROR: fail", "warn"
ExampleFile ==
    <<"i", "n", "f", "o", LF,
      "E", "R", "R", "O", "R", ":", " ", "f", "a", "i", "l", LF,
      "w", "a", "r", "n", LF>>

\* "e", "", "Re" (terminated by "\r\n"), "re", and a pending fragment "x"
MixedFile == <<"e", LF, LF, "R", "e", CR, LF, "r", "e", LF, "x">>

\* "e": fewer lines than the view is high
ShortFile == <<"e", LF>>

SearchFiles == {ExampleFile, MixedFile, ShortFile}

Finds ==
    { <<>>,
      <<"E", "R", "R", "O", "R">>,
      <<"e">>,
      <<"r", ".">>,
      <<"(">> }

InitSearch == InitWith(SearchFiles)

NextSearch ==
    \/ on_mount
    \/ on_idle
    \/ show_filter_dialog
    \/ dismiss_filter_dialog
    \/ \E f \in Finds, r \in BOOLEAN, c \in BOOLEAN : filter_dialog_update(f, r, c)
    \/ \E d \in {1, -1} : move_pointer(d)
    \/ \E y \in 0..(ViewHeight + 1) : on_click(y)
    \/ \E y \in 0..MaxSize : user_scroll(y)
    \/ scroll_complete

SpecSearch == InitSearch /\ [][NextSearch]_vars

----------------------------------------------------------------------------
(* The suggestion specification: lines are rendered, the dialog asks for
   suggestions *)

\* "error", "Err2", "err2"
CaseFile ==
    <<"e", "r", "r", "o", "r", LF, "E", "r", "r", "2", LF, "e", "r", "r", "2", LF>>

\* "ab", "abc /Ab", "abcd [x]"
SplitFile ==
    <<"a", "b", LF,
      "a", "b", "c", " ", "/", "A", "b", LF,
      "a", "b", "c", "d", " ", "[", "x", "]", LF>>

\* "errors code"
WideFile == <<"e", "r", "r", "o", "r", "s", " ", "c", "o", "d", "e", LF>>

\* "abcd", "cdef", "efgh"
LruFile ==
    <<"a", "b", "c", "d", LF, "c", "d", "e", "f", LF, "e", "f", "g", "h", LF>>

SuggestFiles == {CaseFile, SplitFile, WideFile, LruFile}

SuggestInputs ==
    { <<>>,
      <<"e">>,
      <<"E", "R">>,
      <<"x", "/", "e", "r">>,
      <<"e", "r", " ">>,
      <<"a", "[", "A">>,
      <<"z">> }

InitSuggest == InitWith(SuggestFiles)

NextSuggest ==
    \/ on_mount
    \/ on_idle
    \/ \E y \in 0..MaxSize : user_scroll(y)
    \/ \E y \in 0..(ViewHeight - 1) : render_line(y)
    \/ notify_style_update
    \/ \E value \in SuggestInputs : get_suggestion(value)

SpecSuggest == InitSuggest /\ [][NextSuggest]_vars

----------------------------------------------------------------------------
(* The panel specification: the filter dialog's events and the PointerMoved
   messages of the view *)

PanelFiles == {ShortFile, MixedFile}

PanelFinds == {<<>>, <<"e">>}

InitPanel == InitWith(PanelFiles)

NextPanel ==
    \/ on_mount
    \/ on_idle
    \/ show_filter_dialog
    \/ dismiss_filter_dialog
    \/ \E f \in PanelFinds, r \in BOOLEAN, c \in BOOLEAN : filter_dialog_update(f, r, c)
    \/ \E d \in {1, -1} : move_pointer(d)
    \/ \E y \in 0..(ViewHeight + 1) : on_click(y)
    \/ select_line
    \/ pointer_moved
    \/ scroll_complete

SpecPanel == InitPanel /\ [][NextPanel]_vars

----------------------------------------------------------------------------
(* The highlight specification: lines are rendered while the dialog filters
   and navigates a static file that fits the view, so no search scrolls *)

\* "Re", "e"
AnchorFile == <<"R", "e", LF, "e", LF>>

HighlightFiles == {ShortFile, AnchorFile}

HighlightFinds == {<<>>, <<"e">>, <<"r", ".">>, <<"(">>}

InitHighlight == InitWith(HighlightFiles)

NextHighlight ==
    \/ on_mount
    \/ on_idle
    \/ show_filter_dialog
    \/ dismiss_filter_dialog
    \/ \E f \in HighlightFinds, r \in BOOLEAN, c \in BOOLEAN : filter_dialog_update(f, r, c)
    \/ \E d \in {1, -1} : move_pointer(d)
    \/ \E y \in 0..(ViewHeight - 1) : render_line(y)

SpecHighlight == InitHighlight /\ [][NextHighlight]_vars

----------------------------------------------------------------------------
(* The render specification: lines are rendered while the file is appended
   to and rotated *)

\* The rotated file is written one empty line at a time.
RenderBytes == {LF}

RenderFinds == {<<>>, <<"a">>}

InitRender == InitWith({<<"a", LF>>})

\* The mapping shows the file the index was built from: no truncation or
\* replacement is waiting for its reset.
IndexCurrent == ~file_changed /\ Len(file) >= size

NextRender ==
    \/ on_mount
    \/ on_idle
    \/ show_filter_dialog
    \/ dismiss_filter_dialog
    \/ \E f \in RenderFinds, r \in BOOLEAN, c \in BOOLEAN : filter_dialog_update(f, r, c)
    \/ IndexCurrent /\ \E y \in 0..(ViewHeight - 1) : render_line(y)
    \/ \E b \in RenderBytes : AppendBytes(b)
    \/ Truncate(0)
    \/ WatcherGrowth
    \/ WatcherReset

SpecRender == InitRender /\ [][NextRender]_vars

----------------------------------------------------------------------------
(* Claims about the search, checked under SpecSearch *)

AdvanceOp(d) == IF d = 1 THEN "advance_search(1)" ELSE "advance_search(-1)"

SetMin(S) == CHOOSE x \in S : \A y \in S : x <= y
SetMax(S) == CHOOSE x \in S : \A y \in S : x >= y

\* The cursor the traversal leaves from: the pointer, or with no pointer the
\* line before the first one examined.
Cursor(d) ==
    IF pointer_line # None THEN pointer_line[1]
    ELSE IF d = 1 THEN scroll_y - 1 ELSE max_scroll_y + 1

\* The line numbers after cursor c in direction d.
Traversal(c, d) == IF d = 1 THEN (c + 1)..(line_count - 1) ELSE 0..(c - 1)

FirstMatchSelected(d) ==
    LET c     == Cursor(d)
        trav  == Traversal(c, d)
        hits  == {n \in trav : InRange(n) /\ check_match(get_line(n))}
        first == IF d = 1 THEN SetMin(hits) ELSE SetMax(hits)
        steps == IF hits # {} THEN (IF d = 1 THEN first - c ELSE c - first)
                 ELSE Cardinality(trav)
    IN  /\ pointer_line' = (IF hits = {} THEN pointer_line ELSE Some(first))
        /\ examined' = [k \in 1..steps |-> c + k * d]

ErrorFind == <<"E", "R", "R", "O", "R">>

\* A predicate check_match can evaluate: plain, or a regex that compiles.
ValidPredicate == regex => re_valid(find)

\* A cursor on a line of the index, or just before the first or just after
\* the last one.
LegalCursor(c) == -1 <= c /\ c <= line_count

C7_InvalidRegexMatchesNothing ==
    [][ (\E d \in {1, -1} : last_op' = AdvanceOp(d)) /\ regex /\ ~re_valid(find)
        => /\ raised' = "none"
           /\ pointer_line' = pointer_line
      ]_vars

\* Substring containment of find in line under the case setting.
PlainContains(line) ==
    IF case_sensitive THEN Contains(line, find)
    ELSE Contains(Lower(line), Lower(find))

\* The search accepted the k-th line it examined.
Accepted(k) == k = Len(examined') /\ pointer_line' = Some(examined'[k])

\* C12: with a plain predicate the search accepts a line exactly when find is
\* a substring of its text, as-is when case_sensitive and after lowercasing
\* both otherwise, the empty line included.
C12_PlainIsSubstringContainment ==
    [][ ((\E d \in {1, -1} : last_op' = AdvanceOp(d)) /\ ~regex /\ raised' = "none")
        => \A k \in 1..Len(examined') :
              PlainContains(get_line(examined'[k])) <=> Accepted(k)
      ]_vars

\* C13: an empty find matches every line of the index, plain or regex, case
\* sensitive or not, and advance_search with it selects the line at
\* cursor + direction when that line exists, examining no other.
C13_EmptyPredicateMatchesAll ==
    [][ find = <<>>
        => /\ \A i \in 0..(line_count - 1) :
                 ~check_match_raises(get_line(i)) /\ check_match(get_line(i))
           /\ \A d \in {1, -1} :
                 (last_op' = AdvanceOp(d) /\ InRange(Cursor(d) + d))
                 => /\ raised' = "none"
                    /\ examined' = <<Cursor(d) + d>>
                    /\ pointer_line' = Some(Cursor(d) + d)
      ]_vars

\* C13 witness: with an empty regex predicate the search has moved from line 0
\* of the example to the non-empty line 1.
C13_Witness ==
    /\ last_op = AdvanceOp(1)
    /\ file = ExampleFile
    /\ find = <<>> /\ regex
    /\ examined = <<1>>
    /\ pointer_line = Some(1)

\* C16: every line number advance_search hands to get_line is a line of the
\* index, and no IndexError ends the search.
C16_SearchStaysInRange ==
    [][ (\E d \in {1, -1} : last_op' = AdvanceOp(d))
        => /\ \A k \in 1..Len(examined') : InRange(examined'[k])
           /\ raised' # "IndexError"
      ]_vars

----------------------------------------------------------------------------
(* Claims about the suggestion index, checked under SpecSuggest *)

\* The text the step observed: that of the strip the step added to the cache.
ObservedKeys == DOMAIN render_cache' \ DOMAIN render_cache

Observes(text) ==
    /\ last_op' = "render_line"
    /\ \E k \in ObservedKeys : render_cache'[k].plain = text

Texts == {get_line(i) : i \in 0..(line_count - 1)}

TokensOf(text) == {re_split(text)[i] : i \in 1..Len(re_split(text))}

\* C8: without an eviction, the word stored under a key is never replaced by
\* a strictly shorter one, whatever the letter case of the observed tokens.
C8_LongerWordKept ==
    [][ (last_op' = "render_line" /\ evicted' = 0)
        => \A i \in 1..Len(search_index) :
              LET key == search_index[i][1]
              IN  /\ lru_has(search_index', key)
                  /\ Len(lru_value(search_index', key)) >= Len(search_index[i][2])
      ]_vars

\* C9: after a text is observed, for every token of length > 1 and every
\* non-empty proper prefix p of it (lengths 1 through len(token) - 1) the
\* index holds under p.lower() the token or a value at least as long, and
\* tokens of length <= 1 add nothing.
C9_EveryProperPrefixStored ==
    [][ \A text \in Texts :
          (Observes(text) /\ evicted' = 0)
          => /\ \A w \in TokensOf(text) : \A n \in 1..(Len(w) - 1) :
                   LET key == Lower(SubSeq(w, 1, n))
                   IN  /\ Len(w) > 1
                       => /\ lru_has(search_index', key)
                          /\ \/ lru_value(search_index', key) = w
                             \/ Len(lru_value(search_index', key)) >= Len(w)
             /\ \A i \in 1..Len(search_index') :
                   \/ lru_has(search_index, search_index'[i][1])
                   \/ \E w \in TokensOf(text) : \E n \in 1..(Len(w) - 1) :
                         Len(w) > 1 /\ search_index'[i][1] = Lower(SubSeq(w, 1, n))
      ]_vars

\* Length of the trailing token of value: of its longest suffix free of
\* delimiters.
TrailingLen(value) ==
    CHOOSE n \in 0..Len(value) :
        /\ \A i \in (Len(value) - n + 1)..Len(value) : value[i] \notin SplitChars
        /\ n = Len(value) \/ value[Len(value) - n] \in SplitChars

\* C10: get_suggestion looks the trailing token of the input up in lower
\* case; on a hit it returns the input with that token replaced by the stored
\* word, what precedes the token kept verbatim; it returns None when the key
\* is absent and when the trailing token is empty.
C10_SuggestionReplacesTrailingToken ==
    last_op = "get_suggestion" =>
        LET n      == TrailingLen(suggest_input)
            before == SubSeq(suggest_input, 1, Len(suggest_input) - n)
            token  == SubSeq(suggest_input, Len(suggest_input) - n + 1, Len(suggest_input))
        IN  IF token = <<>> \/ ~lru_has(search_index, Lower(token))
            THEN suggestion = None
            ELSE suggestion = Some(before \o lru_value(search_index, Lower(token)))

\* C10 witness: "a[A" was completed to "a[abcd": the upper-case token was
\* looked up in lower case and replaced, "a[" was kept.
C10_Witness ==
    /\ last_op = "get_suggestion"
    /\ suggest_input = <<"a", "[", "A">>
    /\ suggestion = Some(<<"a", "[", "a", "b", "c", "d">>)

IndexKeys(index) == {index[i][1] : i \in 1..Len(index)}

\* The keys a render_line step looked up or assigned: the prefixes of the
\* tokens of the observed text, as written and lowercased.
UsedKeys ==
    UNION { UNION { { SubSeq(w, 1, n), Lower(SubSeq(w, 1, n)) } : n \in 1..(Len(w) - 2) }
            : w \in UNION { TokensOf(text) : text \in {t \in Texts : Observes(t)} } }

\* C15: the suggestion index never holds more than SearchIndexMaxSize entries
\* and no key twice; an insertion into a full index does not fail or grow the
\* index but drops entries, and every entry dropped was less recently used
\* than every entry kept that the step did not use.
C15_IndexWithinCapacity ==
    [][ /\ Len(search_index') <= SearchIndexMaxSize
        /\ Cardinality(IndexKeys(search_index')) = Len(search_index')
        /\ last_op' = "render_line"
           => /\ raised' = "none"
              /\ evicted' > 0 => Len(search_index') = SearchIndexMaxSize
              /\ \A d \in IndexKeys(search_index) \ IndexKeys(search_index') :
                    /\ evicted' > 0
                    /\ \A k \in (IndexKeys(search_index) \cap IndexKeys(search_index')) \ UsedKeys :
                          lru_pos(search_index, k) < lru_pos(search_index, d)
        /\ last_op' = "get_suggestion"
           => IndexKeys(search_index') = IndexKeys(search_index)
      ]_vars

\* C15 witness: a render filled the index and evicted an entry observed by an
\* earlier step, while an older entry it used was kept.
C15_Witness ==
    /\ last_op = "render_line"
    /\ file = LruFile
    /\ evicted = 2
    /\ Len(search_index) = SearchIndexMaxSize
    /\ IndexKeys(search_index) = {<<"a">>, <<"c", "d">>, <<"e">>, <<"e", "f">>}

StartsWith(text, prefix) ==
    Len(prefix) <= Len(text) /\ SubSeq(text, 1, Len(prefix)) = prefix

\* C17: every entry (key, word) of the suggestion index has a non-empty
\* lowercase key strictly shorter than word with word.lower() starting with
\* key, and every suggestion returned, lowercased, starts with the lowercased
\* input and is strictly longer than the input.
C17_EntriesWellFormed ==
    /\ \A i \in 1..Len(search_index) :
          LET key  == search_index[i][1]
              word == search_index[i][2]
          IN  /\ key # <<>>
              /\ key = Lower(key)
              /\ Len(key) < Len(word)
              /\ StartsWith(Lower(word), key)
    /\ (last_op = "get_suggestion" /\ suggestion # None)
       => /\ StartsWith(Lower(suggestion[1]), Lower(suggest_input))
          /\ Len(suggestion[1]) > Len(suggest_input)

\* C17 witness: an upper-case input got a suggestion from an index that holds
\* a word with an upper-case letter.
C17_Witness ==
    /\ last_op = "get_suggestion"
    /\ suggest_input = <<"E", "R">>
    /\ suggestion # None
    /\ \E i \in 1..Len(search_index) : search_index[i][2] # Lower(search_index[i][2])

----------------------------------------------------------------------------
(* Claims about rendering, checked under SpecHighlight and SpecRender *)

\* The strip render_line computes for line index from the file and the
\* settings as they are now.
FreshStrip(index) ==
    [plain |-> get_text(index),
     style |-> IF find # <<>> /\ show_find THEN highlight_find(get_text(index)) ELSE "plain"]

\* C18: every strip render_line can serve from _render_line_cache, the strip
\* under a key (index, is_pointer) with index a line of the index, is the one
\* computed from the current content of that line and the current find,
\* regex, case_sensitive and show_find: a change of a setting and a
\* truncation/reset that changes the line leave no other strip in the cache.
C18_RenderCacheCoherent ==
    (opened /\ IndexCurrent)
    => \A key \in DOMAIN render_cache :
          InRange(key[1]) => render_cache[key] = FreshStrip(key[1])

\* C19: with the dialog shown and a valid, non-empty predicate, check_match
\* accepts a rendered line exactly when highlight_find highlighted a match in
\* it rather than dimming it.
C19_NavigationAgreesWithHighlight ==
    (show_find /\ find # <<>> /\ ValidPredicate)
    => \A key \in DOMAIN render_cache :
          (render_cache[key].style = "highlight") <=> check_match(get_line(key[1]))

----------------------------------------------------------------------------
(* Claims about the detail panel, checked under SpecPanel *)

\* C20: once the filter dialog has been dismissed and the PointerMoved message
\* the dismissal posted has been handled, show_find and show_gutter are False,
\* pointer_line is None and show_panel is False.
C20_DismissReturnsToIdle ==
    ( /\ last_op \in {"dismiss_filter_dialog", "pointer_moved"}
      /\ ~show_find
      /\ pointer_moved_msg = None )
    => /\ ~show_gutter
       /\ pointer_line = None
       /\ ~show_panel

----------------------------------------------------------------------------
(* Claims about the watcher, checked under SpecWatch *)

LastCall == calls[Len(calls)]

----------------------------------------------------------------------------
(* Claims about the line index, checked under SpecIndex *)

\* Offsets (0-based) of the terminators of data.
Terminators(data) == {t \in 0..(Len(data) - 1) : ByteAt(data, t) = LF}

\* The index open() + scan_block(0, size) builds on content alone.
FreshOffsets(content) == scan_block(<<>>, content, 0, Len(content))

IsPrefixOf(s, t) == Len(s) <= Len(t) /\ SubSeq(t, 1, Len(s)) = s

\* The calls since the last reset partition [0, end): each starts where the
\* previous one ended.
Consecutive(cs) ==
    /\ cs # <<>> => cs[1][1] = 0
    /\ \A i \in 1..(Len(cs) - 1) : cs[i + 1][1] = cs[i][2]

\* C1: scanning the content through any sequence of scan_block calls over
\* consecutive sub-ranges partitioning [0, size) gives the same offsets as the
\* single call scan_block(0, size), wherever the partition boundaries fall.
C1_PartitionInvariant ==
    opened =>
        /\ Consecutive(calls)
        /\ calls[Len(calls)][2] = Len(scanned)
        /\ offsets = FreshOffsets(scanned)

\* C1 witness: three calls, one boundary between "\r" and its "\n" and one
\* boundary inside a line, and a terminator was indexed.
C1_Witness ==
    /\ opened
    /\ Len(calls) >= 3
    /\ \E i \in 1..(Len(calls) - 1) :
          LET p == calls[i][2]
          IN  p >= 1 /\ p < Len(scanned) /\ ByteAt(scanned, p - 1) = CR /\ ByteAt(scanned, p) = LF
    /\ \E i \in 1..(Len(calls) - 1) :
          LET p == calls[i][2]
          IN  p >= 1 /\ p < Len(scanned) /\ ByteAt(scanned, p - 1) = "a" /\ ByteAt(scanned, p) = "a"
    /\ line_count >= 1

\* Content of two terminated lines followed by an unterminated fragment.
TwoLinesAndFragment == <<"a", LF, LF, "a">>

\* C2: line_count is the number of terminators in the scanned range, so an
\* unterminated trailing fragment is not counted: two terminated lines and a
\* fragment give 2, and 3 once the fragment's terminator has been scanned.
C2_FragmentNotCounted ==
    opened =>
        /\ line_count = Cardinality(Terminators(scanned))
        /\ scanned = TwoLinesAndFragment => line_count = 2
        /\ scanned = Append(TwoLinesAndFragment, LF) => line_count = 3

\* C2 witness: the scenario ran: the initial scan saw the two lines and the
\* fragment, the growth scan saw the appended terminator.
C2_Witness ==
    /\ opened
    /\ calls = <<<<0, 4>>, <<4, 5>>>>
    /\ scanned = Append(TwoLinesAndFragment, LF)
    /\ line_count = 3

C4_Monotonic ==
    [][last_op' # "reset" => (Len(offsets') >= Len(offsets) /\ IsPrefixOf(offsets, offsets'))]_vars

\* C4 witness: a growth scan has added lines to the ones the first scan found.
C4_Witness ==
    /\ last_op = "growth"
    /\ Len(calls) >= 2
    /\ line_count > Cardinality({t \in Terminators(scanned) : t < calls[1][2]})
    /\ Cardinality({t \in Terminators(scanned) : t < calls[1][2]}) >= 1

StrictlyIncreasing(s) == \A i \in 1..(Len(s) - 1) : s[i] < s[i + 1]

====
